---- MODULE Spec2Model ----
(***************************************************************************)
(* A model of matrix_system.api.client.MatrixClient: the response          *)
(* classifier (_handle_response), the retry loop of request(), the header  *)
(* injection, health_check(), close() and the with-scope, and two calls    *)
(* running on one client; and of the validation of Config and of           *)
(* HealthSummary with its health_percentage().                             *)
(*                                                                         *)
(* Python values are represented as follows.                               *)
(*   Optional[T]      the empty set for None, the singleton {x} for x      *)
(*   str (messages)   a sequence of string parts                           *)
(*   header value     a sequence of one-character strings (responses) or   *)
(*                    of string parts (requests)                           *)
(*   URL              a sequence of string parts, joined by concatenation  *)
(*   dict             a set of <<key, value>> pairs with distinct keys     *)
(*   float            an integer number of hundredths (80.0 is 8000)       *)
(*   bytes (body)     a sequence of JSON tokens                            *)
(*   JSON value       [type, members, items]; an object's members are a    *)
(*                    set of <<key, value>> pairs                          *)
(***************************************************************************)
EXTENDS Integers, Sequences, FiniteSets, TLC

VARIABLES
    config,          \* self.config: max_retries, api_token, timeout
    pc,              \* position of the caller: "idle", "loop" (inside the while), "done"
    req,             \* the arguments the call in progress was made with
    retries,         \* local variable retries of request()
    last_exception,  \* local variable last_exception of request()
    attempts,        \* number of self.client.request(...) calls made by this logical call
    outcomes,        \* what each of those attempts produced, in order
    last_response,   \* the response of the last attempt that received one
    result,          \* how the logical call ended: a returned value or a raised exception
    headers,         \* local variable headers of request(): the dict sent with each attempt
    caller_headers,  \* the dict object the caller passed as headers=..., None if not passed
    sent,            \* the arguments of each self.client.request(...) call, in order
    health,          \* the health_check() invocation the current call belongs to, if any
    closed,          \* whether self.client (the transport) is closed
    releases,        \* how many times the transport was actually released
    close_calls,     \* how many times close() was called
    close_faults,    \* how many of those calls raised
    scope,           \* the with-block around the client: "none", "with", "exited"
    exit_exc,        \* the exception __exit__ was called with, None on a normal exit
    propagated,      \* the exception that left the with-block, None if none did
    other,           \* a second call of request() running on the same client
    constructed,     \* the last Config(...) call: its arguments and whether it raised
    summary,         \* the last HealthSummary(...) call: its arguments and whether it raised
    percentage,      \* what health_percentage() returned for it, None if not called
    log              \* the events the call in progress, and close() after it, gave self.logger

callvars ==
    <<pc, req, retries, last_exception, attempts, outcomes, last_response, result,
      headers, caller_headers, sent, health>>

lifevars == <<closed, releases, close_calls, close_faults, scope, exit_exc, propagated>>

datavars == <<constructed, summary, percentage>>

vars == <<config, callvars, lifevars, other, datavars, log>>

\* Largest max_retries explored (Config itself admits 0..10).
MaxRetriesBound == 2

\* close() is called directly at most this many times
MaxCloseCalls == 2

\* the counts of a HealthSummary go up to this
MaxCount == 10

----------------------------------------------------------------------------
\* Optional values and Python truthiness

NoneV == {}

Some(x) == {x}

TheValue(opt) == CHOOSE x \in opt : TRUE

\* bool(s) for an Optional[str]: None and the empty string are falsy
TruthyStr(opt) == opt # NoneV /\ opt # Some("")

\* bool(s) for an Optional header value (a sequence of characters)
TruthyHeader(opt) == opt # NoneV /\ opt # Some(<<>>)

----------------------------------------------------------------------------
\* Configuration (utils/config.py)

ApiTokens == {NoneV, Some(""), Some("s3cret")}

Timeouts == {30}

\* the defaults of the three service base URLs, as configured: the origin, then
\* the path if one is given
HubUrl == <<"https://api.matrixhub.io">>

AiUrl == <<"https://huggingface.co", "/spaces/agent-matrix/matrix-ai">>

GuardianUrl == <<"http://localhost:8080">>

\* str() of a field of type HttpUrl: validation gives a URL without a path the
\* path "/", which its text then shows
HttpUrlStr(u) == IF Len(u) = 1 THEN u \o <<"/">> ELSE u

Configs ==
    [max_retries : 0..MaxRetriesBound, api_token : ApiTokens, timeout : Timeouts,
     matrix_hub_url : {HubUrl}, matrix_ai_url : {AiUrl},
     matrix_guardian_url : {GuardianUrl}]

----------------------------------------------------------------------------
\* JSON decoding of a body (response.json())

JsonStrings == {"detail", "bad field", "status", "ok", "code", "E42"}

EmptyMap == [type |-> "object", members |-> {}, items |-> <<>>]

NoValue == [type |-> "none", members |-> {}, items |-> <<>>]

Keys(members) == {p[1] : p \in members}

RECURSIVE ParseMembers(_)
\* key ":" value ("," key ":" value)*  -- a later duplicate key wins, as in a dict
ParseMembers(toks) ==
    IF Len(toks) < 3 THEN [ok |-> FALSE, members |-> {}]
    ELSE IF ~(toks[1] \in JsonStrings /\ toks[2] = ":" /\ toks[3] \in JsonStrings)
    THEN [ok |-> FALSE, members |-> {}]
    ELSE IF Len(toks) = 3 THEN [ok |-> TRUE, members |-> {<<toks[1], toks[3]>>}]
    ELSE IF toks[4] # "," THEN [ok |-> FALSE, members |-> {}]
    ELSE LET rest == ParseMembers(SubSeq(toks, 5, Len(toks)))
         IN  IF ~rest.ok THEN rest
             ELSE [ok |-> TRUE,
                   members |-> rest.members \cup
                       (IF toks[1] \in Keys(rest.members) THEN {}
                        ELSE {<<toks[1], toks[3]>>})]

RECURSIVE ParseItems(_)
\* value ("," value)*
ParseItems(toks) ==
    IF Len(toks) = 0 THEN [ok |-> FALSE, items |-> <<>>]
    ELSE IF toks[1] \notin JsonStrings THEN [ok |-> FALSE, items |-> <<>>]
    ELSE IF Len(toks) = 1 THEN [ok |-> TRUE, items |-> <<toks[1]>>]
    ELSE IF toks[2] # "," THEN [ok |-> FALSE, items |-> <<>>]
    ELSE LET rest == ParseItems(SubSeq(toks, 3, Len(toks)))
         IN  IF ~rest.ok THEN rest
             ELSE [ok |-> TRUE, items |-> <<toks[1]>> \o rest.items]

DecodeFail == [ok |-> FALSE, val |-> NoValue]

JsonLoads(content) ==
    LET n == Len(content) IN
    IF n = 0 THEN DecodeFail
    ELSE IF n = 1
    THEN IF content[1] \in JsonStrings
         THEN [ok |-> TRUE,
               val |-> [type |-> "string", members |-> {}, items |-> <<content[1]>>]]
         ELSE DecodeFail
    ELSE IF content[1] = "{" /\ content[n] = "}"
    THEN IF n = 2 THEN [ok |-> TRUE, val |-> EmptyMap]
         ELSE LET m == ParseMembers(SubSeq(content, 2, n - 1))
              IN  IF m.ok
                  THEN [ok |-> TRUE,
                        val |-> [type |-> "object", members |-> m.members, items |-> <<>>]]
                  ELSE DecodeFail
    ELSE IF content[1] = "[" /\ content[n] = "]"
    THEN IF n = 2
         THEN [ok |-> TRUE, val |-> [type |-> "array", members |-> {}, items |-> <<>>]]
         ELSE LET a == ParseItems(SubSeq(content, 2, n - 1))
              IN  IF a.ok
                  THEN [ok |-> TRUE,
                        val |-> [type |-> "array", members |-> {}, items |-> a.items]]
                  ELSE DecodeFail
    ELSE DecodeFail

\* bool(v) of a decoded JSON value
TruthyJson(v) ==
    CASE v.type = "object" -> v.members # {}
      [] v.type = "array"  -> v.items # <<>>
      [] v.type = "string" -> v.items # <<"">>
      [] OTHER -> FALSE

----------------------------------------------------------------------------
\* int(s) of a header value

Digits == {"0", "1", "2", "3", "4", "5", "6", "7", "8", "9"}

DigitVal(c) ==
    CASE c = "0" -> 0 [] c = "1" -> 1 [] c = "2" -> 2 [] c = "3" -> 3 [] c = "4" -> 4
      [] c = "5" -> 5 [] c = "6" -> 6 [] c = "7" -> 7 [] c = "8" -> 8 [] c = "9" -> 9

RECURSIVE DecimalValue(_)
DecimalValue(s) ==
    IF Len(s) = 0 THEN 0
    ELSE 10 * DecimalValue(SubSeq(s, 1, Len(s) - 1)) + DigitVal(s[Len(s)])

IsDecimal(s) == Len(s) > 0 /\ \A i \in 1..Len(s) : s[i] \in Digits

\* [ok, val]: ok = FALSE stands for ValueError
PyInt(s) ==
    IF IsDecimal(s) THEN [ok |-> TRUE, val |-> DecimalValue(s)]
    ELSE IF Len(s) > 1 /\ s[1] \in {"+", "-"} /\ IsDecimal(Tail(s))
    THEN [ok |-> TRUE,
          val |-> IF s[1] = "-" THEN 0 - DecimalValue(Tail(s)) ELSE DecimalValue(Tail(s))]
    ELSE [ok |-> FALSE, val |-> 0]

----------------------------------------------------------------------------
\* Exceptions (api/exceptions.py) and results of a call

NoNums == <<>>

\* MatrixAPIError.__init__: response_data or {}
MatrixAPIErrorInit(exc, message, nums, status_code, response_data, retry_after) ==
    [kind |-> "raise", exc |-> exc, message |-> message, nums |-> nums,
     status_code |-> status_code,
     response_data |-> IF TruthyJson(response_data) THEN response_data ELSE EmptyMap,
     retry_after |-> retry_after, value |-> NoValue]

MatrixAPIError(message, status_code, response_data) ==
    MatrixAPIErrorInit("MatrixAPIError", message, NoNums, Some(status_code),
                       response_data, NoneV)

MatrixConnectionError(message, nums) ==
    MatrixAPIErrorInit("MatrixConnectionError", message, nums, NoneV, NoValue, NoneV)

MatrixTimeoutError(message, nums) ==
    MatrixAPIErrorInit("MatrixTimeoutError", message, nums, NoneV, NoValue, NoneV)

MatrixAuthError(message, status_code) ==
    MatrixAPIErrorInit("MatrixAuthError", message, NoNums, Some(status_code),
                       NoValue, NoneV)

\* Faulty variant: the response data is not passed on to the base class
MatrixValidationErrorNoData(message, status_code, response_data) ==
    MatrixAPIErrorInit("MatrixValidationError", message, NoNums, Some(status_code),
                       NoValue, NoneV)

MatrixValidationError(message, status_code, response_data) ==
    MatrixAPIErrorInit("MatrixValidationError", message, NoNums, Some(status_code),
                       response_data, NoneV)

MatrixNotFoundError(message, status_code) ==
    MatrixAPIErrorInit("MatrixNotFoundError", message, NoNums, Some(status_code),
                       NoValue, NoneV)

MatrixRateLimitError(message, status_code, retry_after) ==
    MatrixAPIErrorInit("MatrixRateLimitError", message, NoNums, Some(status_code),
                       NoValue, retry_after)

\* An exception that is none of the client's own: it leaves request() as it is
Unclassified(exc) ==
    [kind |-> "raise", exc |-> exc, message |-> <<>>, nums |-> NoNums,
     status_code |-> NoneV, response_data |-> EmptyMap, retry_after |-> NoneV,
     value |-> NoValue]

Return(v) ==
    [kind |-> "return", exc |-> "", message |-> <<>>, nums |-> NoNums,
     status_code |-> NoneV, response_data |-> EmptyMap, retry_after |-> NoneV,
     value |-> v]

NoResult ==
    [kind |-> "none", exc |-> "", message |-> <<>>, nums |-> NoNums,
     status_code |-> NoneV, response_data |-> EmptyMap, retry_after |-> NoneV,
     value |-> NoValue]

MatrixErrors ==
    {"MatrixAPIError", "MatrixConnectionError", "MatrixTimeoutError", "MatrixAuthError",
     "MatrixValidationError", "MatrixNotFoundError", "MatrixRateLimitError"}

----------------------------------------------------------------------------
\* Responses

StatusCodes == {200, 304, 400, 401, 403, 404, 422, 429, 500}

ReasonPhrase(status) ==
    CASE status = 200 -> "200 OK"
      [] status = 304 -> "304 Not Modified"
      [] status = 400 -> "400 Bad Request"
      [] status = 401 -> "401 Unauthorized"
      [] status = 403 -> "403 Forbidden"
      [] status = 404 -> "404 Not Found"
      [] status = 422 -> "422 Unprocessable Entity"
      [] status = 429 -> "429 Too Many Requests"
      [] status = 500 -> "500 Internal Server Error"

Bodies ==
    { <<>>,
      <<"<html>">>,
      <<"{", "}">>,
      <<"{", "detail", ":", "bad field", "}">>,
      <<"{", "status", ":", "ok", "}">>,
      <<"{", "detail", ":", "bad field", ",", "code", ":", "E42", "}">>,
      <<"[", "ok", "]">> }

RetryAfterHeaders ==
    { NoneV, Some(<<>>), Some(<<"0">>), Some(<<"7">>), Some(<<"1", "2", "0">>),
      Some(<<"W", "e", "d">>) }

Methods == {"GET", "POST"}

\* URLs a caller passes to request() directly
Urls == {HubUrl \o <<"/items">>}

\* URLs health_check() builds
HealthUrls == {HttpUrlStr(u) \o <<"/health">> : u \in {HubUrl, AiUrl, GuardianUrl}}

\* A received response: status, body, the Retry-After header, and the URL of its
\* request. The header is read for status 429 only; the other statuses come with
\* the header absent or with a value that is no integer.
Responses ==
    { r \in [status_code : StatusCodes, content : Bodies,
             retry_after : RetryAfterHeaders, url : Urls \cup HealthUrls] :
        r.status_code # 429 => r.retry_after \in {NoneV, Some(<<"W", "e", "d">>)} }

NoResponse == [status_code |-> 0, content |-> <<>>, retry_after |-> NoneV, url |-> <<>>]

----------------------------------------------------------------------------
\* MatrixClient._handle_response

\* response.raise_for_status() raises HTTPStatusError unless the status is 2xx
\* (httpx: every response that is not is_success, 1xx and 3xx included)
RaisesHTTPStatusError(response) ==
    ~(200 <= response.status_code /\ response.status_code <= 299)

\* str(e) of the HTTPStatusError: the status line and the URL
StrHTTPStatusError(response) ==
    <<"HTTP error", ReasonPhrase(response.status_code), "for url">> \o response.url

\* Faulty variant: the body is decoded without the test for an empty body
DecodeSuccessAlwaysJson(response) ==
    LET d == JsonLoads(response.content)
    IN  IF d.ok THEN Return(d.val) ELSE Unclassified("JSONDecodeError")

\* Faulty variant: a body that does not decode is taken for an empty one
DecodeSuccessSwallow(response) ==
    IF response.content # <<>>
    THEN LET d == JsonLoads(response.content)
         IN  IF d.ok THEN Return(d.val) ELSE Return(EmptyMap)
    ELSE Return(EmptyMap)

\* return response.json() if response.content else {}
DecodeSuccess(response) ==
    IF response.content # <<>>
    THEN LET d == JsonLoads(response.content)
         IN  IF d.ok THEN Return(d.val) ELSE Unclassified("JSONDecodeError")
    ELSE Return(EmptyMap)

\* error_data = e.response.json(): bound is FALSE when json() raised, and then the
\* local name error_data was never assigned
ErrorData(response) ==
    LET d == JsonLoads(response.content)
    IN  [bound |-> d.ok, val |-> d.val]

\* error_message: error_data.get("detail", str(e)), and str(e) when json() or .get raised
ErrorMessage(response) ==
    LET d == JsonLoads(response.content)
    IN  IF d.ok /\ d.val.type = "object" /\ "detail" \in Keys(d.val.members)
        THEN <<(CHOOSE p \in d.val.members : p[1] = "detail")[2]>>
        ELSE StrHTTPStatusError(response)

TokenHint == "token missing: set MATRIX_HUB_TOKEN / MATRIX_TOKEN / API_TOKEN"

\* Faulty variant: the hint is given only when api_token is None
AuthHintIsNone(cfg) == IF cfg.api_token = NoneV THEN <<TokenHint>> ELSE <<>>

\* hint: empty unless no api_token is configured
AuthHint(cfg) == IF ~TruthyStr(cfg.api_token) THEN <<TokenHint>> ELSE <<>>

\* Faulty variant: the header is never read
ParseRetryAfterDropped(response) == [ok |-> TRUE, val |-> NoneV]

\* int(retry_after) if retry_after else None; ok = FALSE stands for ValueError
ParseRetryAfter(response) ==
    IF TruthyHeader(response.retry_after)
    THEN LET n == PyInt(TheValue(response.retry_after))
         IN  [ok |-> n.ok, val |-> IF n.ok THEN Some(n.val) ELSE NoneV]
    ELSE [ok |-> TRUE, val |-> NoneV]

\* the except httpx.HTTPStatusError branch
ClassifyError(cfg, response) ==
    LET status_code   == response.status_code
        error_data    == ErrorData(response)
        error_message == ErrorMessage(response)
    IN  IF status_code \in {401, 403}
        THEN MatrixAuthError(error_message \o AuthHint(cfg), status_code)
        ELSE IF status_code = 404
        THEN MatrixNotFoundError(error_message, status_code)
        ELSE IF status_code = 422
        THEN IF error_data.bound
             THEN MatrixValidationError(error_message, status_code, error_data.val)
             ELSE Unclassified("UnboundLocalError")
        ELSE IF status_code = 429
        THEN LET retry_after == ParseRetryAfter(response)
             IN  IF retry_after.ok
                 THEN MatrixRateLimitError(error_message, status_code, retry_after.val)
                 ELSE Unclassified("ValueError")
        ELSE IF error_data.bound
             THEN MatrixAPIError(error_message, status_code, error_data.val)
             ELSE Unclassified("UnboundLocalError")

HandleResponse(cfg, response) ==
    IF RaisesHTTPStatusError(response)
    THEN ClassifyError(cfg, response)
    ELSE DecodeSuccess(response)

----------------------------------------------------------------------------
\* MatrixClient.request

\* Faulty variant: with a retry budget of zero the loop body is never entered
LoopCondSkipsZero(n, cfg) == cfg.max_retries > 0 /\ n <= cfg.max_retries

\* Faulty variant: the loop test written with <
LoopCondStrict(n, cfg) == n < cfg.max_retries

\* while retries <= self.config.max_retries
LoopCond(n, cfg) == n <= cfg.max_retries

\* Faulty variant: the exhaustion test written with >=
ExhaustedEarly(n, cfg) == n >= cfg.max_retries

\* if retries > self.config.max_retries
Exhausted(n, cfg) == n > cfg.max_retries

ConnectionErrorAfter(url, n) ==
    MatrixConnectionError(<<"Failed to connect to">> \o url \o <<"after", "attempts">>,
                          <<n>>)

TimeoutErrorAfter(url, cfg) ==
    MatrixTimeoutError(<<"Request to">> \o url \o <<"timed out after", "s">>,
                       <<cfg.timeout>>)

\* the code after the while loop
PostLoop(url, n, last) ==
    IF last # NoneV THEN ConnectionErrorAfter(url, n) ELSE Return(EmptyMap)

\* What one attempt produced: the exception self.client.request raised, or the
\* status of the response it returned
Failed(exc) == [kind |-> exc, status |-> 0]

Received(response) == [kind |-> "Response", status |-> response.status_code]

----------------------------------------------------------------------------
\* The events given to self.logger: the event name and its keyword arguments

\* Faulty variant: the header map is logged whole
LoggedHeadersAll(h) == h

\* {k: v for k, v in headers.items() if k != "Authorization"}
LoggedHeaders(h) == {p \in h : p[1] # "Authorization"}

LogEvent(event, method, url, hdrs, message, numbers) ==
    [event |-> event, method |-> method, url |-> url, headers |-> hdrs,
     message |-> message, numbers |-> numbers]

\* self.logger.debug("http_request", method=, url=, headers=)
HttpRequestEvent(method, url, hdrs) ==
    LogEvent("http_request", method, url, LoggedHeaders(hdrs), <<>>, {})

\* self.logger.warning("connection_error", url=, attempt=, max_retries=)
ConnectionErrorEvent(url, attempt, max_retries) ==
    LogEvent("connection_error", "", url, {}, <<>>,
             {<<"attempt", attempt>>, <<"max_retries", max_retries>>})

\* self.logger.warning("timeout_error", url=, timeout=, attempt=)
TimeoutErrorEvent(url, timeout, attempt) ==
    LogEvent("timeout_error", "", url, {}, <<>>,
             {<<"timeout", timeout>>, <<"attempt", attempt>>})

\* self.logger.error("http_error", status_code=, message=, url=)
HttpErrorEvent(response) ==
    LogEvent("http_error", "", response.url, {}, ErrorMessage(response),
             {<<"status_code", response.status_code>>})

\* self.logger.warning("rate_limited", retry_after=, url=)
RateLimitedEvent(url, retry_after) ==
    LogEvent("rate_limited", "", url, {}, <<>>, {<<"retry_after", retry_after>>})

\* self.logger.debug("http_client_closed")
ClosedEvent == LogEvent("http_client_closed", "", <<>>, {}, <<>>, {})

\* what the handling of a response logs: http_error for every response that is no
\* 2xx, and rate_limited when the MatrixRateLimitError has a retry_after that is
\* not zero
ResponseEvents(url, response) ==
    IF ~RaisesHTTPStatusError(response)
    THEN <<>>
    ELSE <<HttpErrorEvent(response)>> \o
         (IF response.status_code = 429
                /\ ParseRetryAfter(response).ok
                /\ ParseRetryAfter(response).val \notin {NoneV, Some(0)}
          THEN <<RateLimitedEvent(url, TheValue(ParseRetryAfter(response).val))>>
          ELSE <<>>)

----------------------------------------------------------------------------
\* MatrixClient.request, continued

\* dict.update
DictUpdate(d, e) == {p \in d : p[1] \notin Keys(e)} \cup e

\* MatrixClient._get_headers
GetHeaders(cfg) ==
    { <<"Content-Type", <<"application/json">>>>,
      <<"Accept", <<"application/json">>>>,
      <<"User-Agent", <<"matrix-system/1.0.0">>>> }
    \cup (IF TruthyStr(cfg.api_token)
          THEN {<<"Authorization", <<"Bearer", TheValue(cfg.api_token)>>>>}
          ELSE {})

\* headers=... as callers pass it: not at all, or a dict of their own
CallerHeaderMaps ==
    { NoneV,
      Some({<<"X-Trace", <<"abc">>>>}),
      Some({<<"Authorization", <<"Bearer", "callers">>>>, <<"Accept", <<"text/html">>>>}) }

\* json=... as callers pass it
JsonBodies == {NoneV, Some("payload")}

\* **kwargs of request(): the calls explored pass a body together with headers
KwargsSet ==
    { k \in [headers : CallerHeaderMaps, json : JsonBodies] :
        (k.json # NoneV) = (k.headers = Some({<<"X-Trace", <<"abc">>>>})) }

NoKwargs == [headers |-> NoneV, json |-> NoneV]

NoRequest == [method |-> "", url |-> <<>>, json |-> NoneV, headers |-> NoneV]

NoHealth == [service |-> "", error |-> NoneV]

\* Faulty variant: the body goes out with the first attempt only
SentRequestBodyOnce ==
    [method |-> req.method, url |-> req.url, headers |-> headers,
     json |-> IF attempts = 0 THEN req.json ELSE NoneV]

\* the arguments of one self.client.request(...) call
SentRequest == [method |-> req.method, url |-> req.url, headers |-> headers,
                json |-> req.json]

\* the second call, before it has started
NoOther ==
    [pc |-> "idle", url |-> <<>>, retries |-> 0, last_exception |-> NoneV,
     attempts |-> 0, outcomes |-> <<>>, result |-> NoResult, log |-> <<>>]

\* no Config(...) call made in the model yet
NoConstruction ==
    [called |-> FALSE, timeout |-> NoneV, max_retries |-> NoneV, error |-> NoneV]

\* no HealthSummary(...) call made in the model yet
NoSummary ==
    [called |-> FALSE, total_entities |-> 0, healthy_count |-> 0, error |-> NoneV]

Init ==
    /\ config \in Configs
    /\ pc = "idle"
    /\ req = NoRequest
    /\ retries = 0
    /\ last_exception = NoneV
    /\ attempts = 0
    /\ outcomes = <<>>
    /\ last_response = NoResponse
    /\ result = NoResult
    /\ headers = {}
    /\ caller_headers = NoneV
    /\ sent = <<>>
    /\ health = NoHealth
    /\ closed = FALSE
    /\ releases = 0
    /\ close_calls = 0
    /\ close_faults = 0
    /\ scope = "none"
    /\ exit_exc = NoneV
    /\ propagated = NoneV
    /\ other = NoOther
    /\ constructed = NoConstruction
    /\ summary = NoSummary
    /\ percentage = NoneV
    /\ log = <<>>

\* request(method, url, **kwargs) up to the first test of the loop: headers is the
\* caller's dict (a fresh one if none was passed), updated in place
EnterRequest(method, url, kwargs) ==
    /\ pc \in {"idle", "done"}
    /\ req' = [method |-> method, url |-> url, json |-> kwargs.json,
               headers |-> kwargs.headers]
    /\ headers' = DictUpdate(IF kwargs.headers = NoneV THEN {}
                             ELSE TheValue(kwargs.headers),
                             GetHeaders(config))
    /\ caller_headers' = IF kwargs.headers = NoneV THEN NoneV ELSE Some(headers')
    /\ sent' = <<>>
    /\ retries' = 0
    /\ last_exception' = NoneV
    /\ attempts' = 0
    /\ outcomes' = <<>>
    /\ last_response' = NoResponse
    /\ IF LoopCond(0, config)
       THEN pc' = "loop" /\ result' = NoResult
       ELSE pc' = "done" /\ result' = PostLoop(url, 0, NoneV)
    /\ log' = <<HttpRequestEvent(method, url, headers')>>
    /\ UNCHANGED <<config, datavars, lifevars, other>>

\* A caller calls request (or get, post, ...) itself
Request(method, url, kwargs) ==
    /\ EnterRequest(method, url, kwargs)
    /\ health' = NoHealth

\* service_urls of health_check
ServiceUrls(cfg) ==
    [hub |-> HttpUrlStr(cfg.matrix_hub_url), ai |-> HttpUrlStr(cfg.matrix_ai_url),
     guardian |-> HttpUrlStr(cfg.matrix_guardian_url)]

Services == {"hub", "ai", "guardian", "all", "HUB"}

\* health_check(service): ValueError for an unknown service, else self.get(url)
HealthCheck(service) ==
    IF service \notin DOMAIN ServiceUrls(config)
    THEN /\ pc \in {"idle", "done"}
         /\ health' = [service |-> service, error |-> Some("ValueError")]
         /\ pc' = "idle"
         /\ req' = NoRequest
         /\ result' = NoResult
         /\ headers' = {}
         /\ caller_headers' = NoneV
         /\ sent' = <<>>
         /\ retries' = 0
         /\ last_exception' = NoneV
         /\ attempts' = 0
         /\ outcomes' = <<>>
         /\ last_response' = NoResponse
         /\ log' = <<>>
         /\ UNCHANGED <<config, datavars, lifevars, other>>
    ELSE /\ EnterRequest("GET", ServiceUrls(config)[service] \o <<"/health">>, NoKwargs)
         /\ health' = [service |-> service, error |-> NoneV]

\* Faulty variant: the failed attempt is not counted
AttemptConnectErrorUncounted ==
    /\ pc = "loop"
    /\ ~closed
    /\ attempts' = attempts + 1
    /\ sent' = Append(sent, SentRequest)
    /\ outcomes' = Append(outcomes, Failed("ConnectError"))
    /\ last_exception' = Some("ConnectError")
    /\ log' = Append(log, ConnectionErrorEvent(req.url, retries + 1, config.max_retries))
    /\ UNCHANGED <<config, datavars, req, last_response, retries, pc, result, headers,
                   caller_headers, health, lifevars, other>>

\* One pass of the loop body whose self.client.request raises httpx.ConnectError
AttemptConnectError ==
    /\ pc = "loop"
    /\ ~closed
    /\ attempts' = attempts + 1
    /\ sent' = Append(sent, SentRequest)
    /\ outcomes' = Append(outcomes, Failed("ConnectError"))
    /\ last_exception' = Some("ConnectError")
    /\ retries' = retries + 1
    /\ IF Exhausted(retries + 1, config)
       THEN pc' = "done" /\ result' = ConnectionErrorAfter(req.url, retries + 1)
       ELSE IF LoopCond(retries + 1, config)
       THEN pc' = "loop" /\ result' = result
       ELSE pc' = "done"
            /\ result' = PostLoop(req.url, retries + 1, Some("ConnectError"))
    /\ log' = Append(log, ConnectionErrorEvent(req.url, retries + 1, config.max_retries))
    /\ UNCHANGED <<config, datavars, req, last_response, headers, caller_headers, health,
                   lifevars, other>>

\* Faulty variant: a timeout ends the whole call at once
AttemptTimeoutAborts ==
    /\ pc = "loop"
    /\ ~closed
    /\ attempts' = attempts + 1
    /\ sent' = Append(sent, SentRequest)
    /\ outcomes' = Append(outcomes, Failed("TimeoutException"))
    /\ last_exception' = Some("TimeoutException")
    /\ retries' = retries + 1
    /\ pc' = "done"
    /\ result' = TimeoutErrorAfter(req.url, config)
    /\ log' = Append(log, TimeoutErrorEvent(req.url, config.timeout, retries + 1))
    /\ UNCHANGED <<config, datavars, req, last_response, headers, caller_headers, health,
                   lifevars, other>>

\* One pass of the loop body whose self.client.request raises httpx.TimeoutException
AttemptTimeout ==
    /\ pc = "loop"
    /\ ~closed
    /\ attempts' = attempts + 1
    /\ sent' = Append(sent, SentRequest)
    /\ outcomes' = Append(outcomes, Failed("TimeoutException"))
    /\ last_exception' = Some("TimeoutException")
    /\ retries' = retries + 1
    /\ IF Exhausted(retries + 1, config)
       THEN pc' = "done" /\ result' = TimeoutErrorAfter(req.url, config)
       ELSE IF LoopCond(retries + 1, config)
       THEN pc' = "loop" /\ result' = result
       ELSE pc' = "done"
            /\ result' = PostLoop(req.url, retries + 1, Some("TimeoutException"))
    /\ log' = Append(log, TimeoutErrorEvent(req.url, config.timeout, retries + 1))
    /\ UNCHANGED <<config, datavars, req, last_response, headers, caller_headers, health,
                   lifevars, other>>

\* Faulty variant: the attempt never comes back, and the call hangs in it
AttemptTransportErrorHangs ==
    /\ pc = "loop"
    /\ ~closed
    /\ attempts' = attempts + 1
    /\ sent' = Append(sent, SentRequest)
    /\ pc' = "hung"
    /\ UNCHANGED <<config, datavars, log, req, retries, last_exception, last_response, headers,
                   caller_headers, health, lifevars, other, outcomes, result>>

\* One pass whose self.client.request raises an httpx exception that no except
\* clause of request() names (httpx.ReadError): it propagates to the caller
AttemptTransportError ==
    /\ pc = "loop"
    /\ ~closed
    /\ attempts' = attempts + 1
    /\ sent' = Append(sent, SentRequest)
    /\ outcomes' = Append(outcomes, Failed("ReadError"))
    /\ pc' = "done"
    /\ result' = Unclassified("ReadError")
    /\ UNCHANGED <<config, datavars, log, req, retries, last_exception, last_response, headers,
                   caller_headers, health, lifevars, other>>

\* Faulty variant: a 5xx response is retried while budget remains
AttemptResponseRetry5xx(response) ==
    /\ pc = "loop"
    /\ ~closed
    /\ response.url = req.url
    /\ attempts' = attempts + 1
    /\ sent' = Append(sent, SentRequest)
    /\ outcomes' = Append(outcomes, Received(response))
    /\ last_response' = response
    /\ IF response.status_code >= 500 /\ retries + 1 <= config.max_retries
       THEN pc' = "loop" /\ retries' = retries + 1 /\ result' = result
       ELSE pc' = "done" /\ retries' = retries
            /\ result' = HandleResponse(config, response)
    /\ log' = log \o ResponseEvents(req.url, response)
    /\ UNCHANGED <<config, datavars, req, last_exception, headers, caller_headers, health,
                   lifevars, other>>

\* One pass whose self.client.request returns a response: _handle_response returns
\* or raises, and every except clause that matches re-raises
AttemptResponse(response) ==
    /\ pc = "loop"
    /\ ~closed
    /\ response.url = req.url
    /\ attempts' = attempts + 1
    /\ sent' = Append(sent, SentRequest)
    /\ outcomes' = Append(outcomes, Received(response))
    /\ last_response' = response
    /\ pc' = "done"
    /\ result' = HandleResponse(config, response)
    /\ log' = log \o ResponseEvents(req.url, response)
    /\ UNCHANGED <<config, datavars, req, retries, last_exception, headers, caller_headers,
                   health, lifevars, other>>

Next ==
    \/ \E method \in Methods, url \in Urls, kwargs \in KwargsSet :
          Request(method, url, kwargs)
    \/ \E service \in Services : HealthCheck(service)
    \/ \E response \in Responses : AttemptResponse(response)
    \/ AttemptConnectError
    \/ AttemptTimeout
    \/ AttemptTransportError

Spec == Init /\ [][Next]_vars

----------------------------------------------------------------------------
\* The life of the client: close(), the with-scope, and calls on a closed client

\* Faulty variant: releasing a transport that is already released faults
CloseFaultsWhenClosed ==
    /\ close_calls' = close_calls + 1
    /\ closed' = TRUE
    /\ releases' = IF closed THEN releases ELSE releases + 1
    /\ close_faults' = IF closed THEN close_faults + 1 ELSE close_faults
    /\ log' = Append(log, ClosedEvent)

\* close(): self.client.close() releases the transport unless it is released
\* already, and does not raise
Close ==
    /\ close_calls' = close_calls + 1
    /\ closed' = TRUE
    /\ releases' = IF closed THEN releases ELSE releases + 1
    /\ close_faults' = close_faults
    /\ log' = Append(log, ClosedEvent)

\* Faulty variant: __exit__ returns a true value, so the with statement drops the error
ExitSwallows(exc) ==
    /\ Close
    /\ exit_exc' = exc
    /\ propagated' = NoneV

\* __exit__(exc_type, exc_val, exc_tb): close(), then return None, on which the
\* with statement lets the exception it passed in go on
Exit(exc) ==
    /\ Close
    /\ exit_exc' = exc
    /\ propagated' = exc

\* A caller calls close() between calls
CallClose ==
    /\ pc \in {"idle", "done"}
    /\ close_calls < MaxCloseCalls
    /\ Close
    /\ UNCHANGED <<config, datavars, callvars, scope, exit_exc, propagated, other>>

\* with client: ... is entered; __enter__ returns self
Enter ==
    /\ scope = "none"
    /\ pc \in {"idle", "done"}
    /\ scope' = "with"
    /\ UNCHANGED <<config, datavars, log, callvars, closed, releases, close_calls, close_faults,
                   exit_exc, propagated, other>>

\* The with-block ends without an exception of its own: it made no failing call,
\* or it caught what its calls raised
ExitNormal ==
    /\ scope = "with"
    /\ pc \in {"idle", "done"}
    /\ Exit(NoneV)
    /\ scope' = "exited"
    /\ UNCHANGED <<config, datavars, callvars, other>>

\* A call inside the with-block raised and the block did not catch it
ExitByError ==
    /\ scope = "with"
    /\ pc = "done"
    /\ result.kind = "raise"
    /\ Exit(Some(result.exc))
    /\ scope' = "exited"
    /\ UNCHANGED <<config, datavars, callvars, other>>

\* One pass of the loop body on a closed client: self.client.request raises
\* RuntimeError, which no except clause of request() names
AttemptClosed ==
    /\ pc = "loop"
    /\ closed
    /\ attempts' = attempts + 1
    /\ sent' = Append(sent, SentRequest)
    /\ outcomes' = Append(outcomes, Failed("RuntimeError"))
    /\ pc' = "done"
    /\ result' = Unclassified("RuntimeError")
    /\ UNCHANGED <<config, datavars, log, req, retries, last_exception, last_response, headers,
                   caller_headers, health, lifevars, other>>

\* The responses the calls of this part and the next receive
SampleResponses ==
    { r \in Responses :
        /\ r.status_code \in {200, 404, 500}
        /\ r.content \in {<<"<html>">>, <<"{", "status", ":", "ok", "}">>}
        /\ r.retry_after = NoneV }

NextLifecycle ==
    \/ \E url \in Urls : Request("GET", url, NoKwargs)
    \/ \E service \in Services : HealthCheck(service)
    \/ \E response \in SampleResponses : AttemptResponse(response)
    \/ AttemptConnectError
    \/ AttemptTimeout
    \/ AttemptTransportError
    \/ AttemptClosed
    \/ CallClose
    \/ Enter
    \/ ExitNormal
    \/ ExitByError

SpecLifecycle == Init /\ [][NextLifecycle]_vars

----------------------------------------------------------------------------
\* Two calls of request() on one client, from two threads. Each invocation has its
\* own locals retries and last_exception; the calls share self.config and
\* self.client only. The first call is the one of the variables above, the second
\* is the record other.

\* the second call enters request(): retries = 0, last_exception = None
OtherRequest(url) ==
    /\ other.pc \in {"idle", "done"}
    /\ other' = [pc |-> IF LoopCond(0, config) THEN "loop" ELSE "done",
                 url |-> url, retries |-> 0, last_exception |-> NoneV,
                 attempts |-> 0, outcomes |-> <<>>,
                 result |-> IF LoopCond(0, config) THEN NoResult
                            ELSE PostLoop(url, 0, NoneV),
                 log |-> <<HttpRequestEvent("GET", url, GetHeaders(config))>>]
    /\ UNCHANGED <<config, datavars, log, callvars, lifevars>>

\* what a failed attempt of the second call does to its locals
OtherAfterFailure(exc, raised) ==
    [other EXCEPT
        !.log = Append(@, IF exc = "ConnectError"
                          THEN ConnectionErrorEvent(other.url, other.retries + 1,
                                                    config.max_retries)
                          ELSE TimeoutErrorEvent(other.url, config.timeout,
                                                 other.retries + 1)),
        !.attempts = @ + 1,
        !.outcomes = Append(@, Failed(exc)),
        !.last_exception = Some(exc),
        !.retries = @ + 1,
        !.pc = IF Exhausted(other.retries + 1, config) THEN "done"
               ELSE IF LoopCond(other.retries + 1, config) THEN "loop" ELSE "done",
        !.result = IF Exhausted(other.retries + 1, config) THEN raised
                   ELSE IF LoopCond(other.retries + 1, config) THEN @
                   ELSE PostLoop(other.url, other.retries + 1, Some(exc))]

\* Faulty variant: retries is a counter of the client, counted up by every call
OtherAttemptConnectErrorShared ==
    /\ other.pc = "loop"
    /\ ~closed
    /\ other' = OtherAfterFailure("ConnectError",
                                  ConnectionErrorAfter(other.url, other.retries + 1))
    /\ retries' = retries + 1
    /\ UNCHANGED <<config, datavars, log, pc, req, last_exception, attempts, outcomes, last_response,
                   result, headers, caller_headers, sent, health, lifevars>>

\* One pass of the second call's loop body that raises httpx.ConnectError
OtherAttemptConnectError ==
    /\ other.pc = "loop"
    /\ ~closed
    /\ other' = OtherAfterFailure("ConnectError",
                                  ConnectionErrorAfter(other.url, other.retries + 1))
    /\ UNCHANGED <<config, datavars, log, callvars, lifevars>>

\* One pass of the second call's loop body that raises httpx.TimeoutException
OtherAttemptTimeout ==
    /\ other.pc = "loop"
    /\ ~closed
    /\ other' = OtherAfterFailure("TimeoutException",
                                  TimeoutErrorAfter(other.url, config))
    /\ UNCHANGED <<config, datavars, log, callvars, lifevars>>

\* One pass of the second call's loop body that gets a response
OtherAttemptResponse(response) ==
    /\ other.pc = "loop"
    /\ ~closed
    /\ response.url = other.url
    /\ other' = [other EXCEPT
                    !.attempts = @ + 1,
                    !.outcomes = Append(@, Received(response)),
                    !.log = @ \o ResponseEvents(other.url, response),
                    !.pc = "done",
                    !.result = HandleResponse(config, response)]
    /\ UNCHANGED <<config, datavars, log, callvars, lifevars>>

NextConcurrent ==
    \/ \E url \in Urls : Request("GET", url, NoKwargs)
    \/ \E response \in SampleResponses : AttemptResponse(response)
    \/ AttemptConnectError
    \/ AttemptTimeout
    \/ \E url \in Urls : OtherRequest(url)
    \/ \E response \in SampleResponses : OtherAttemptResponse(response)
    \/ OtherAttemptConnectError
    \/ OtherAttemptTimeout

SpecConcurrent == Init /\ [][NextConcurrent]_vars

----------------------------------------------------------------------------
\* Config: the validation of timeout and max_retries at construction

\* default = 30 for timeout, default = 3 for max_retries
DefaultTimeout == 30

DefaultMaxRetries == 3

\* the value a field gets: the argument, or the default when none is given
FieldValue(arg, default) == IF arg = NoneV THEN default ELSE TheValue(arg)

\* timeout: ge=1, le=300
ValidTimeout(n) == 1 <= n /\ n <= 300

\* Faulty variant: max_retries has the upper limit only
ValidMaxRetriesNoFloor(n) == n <= 10

\* max_retries: ge=0, le=10
ValidMaxRetries(n) == 0 <= n /\ n <= 10

\* the arguments Config(...) is called with; None stands for an argument left out
TimeoutArgs == {NoneV, Some(0), Some(1), Some(300), Some(301), Some(500)}

MaxRetriesArgs == {NoneV, Some(-1), Some(0), Some(10), Some(11), Some(20)}

\* Config(timeout=..., max_retries=...) and a client made for it: a field outside
\* its limits raises ValidationError and no Config comes into being
NewConfig(timeout, max_retries) ==
    LET t == FieldValue(timeout, DefaultTimeout)
        m == FieldValue(max_retries, DefaultMaxRetries)
    IN  /\ pc \in {"idle", "done"}
        /\ IF ValidTimeout(t) /\ ValidMaxRetries(m)
           THEN /\ constructed' = [called |-> TRUE, timeout |-> timeout,
                                   max_retries |-> max_retries, error |-> NoneV]
                /\ config' = [config EXCEPT !.timeout = t, !.max_retries = m]
                /\ pc' = "idle"
                /\ req' = NoRequest
                /\ result' = NoResult
                /\ headers' = {}
                /\ caller_headers' = NoneV
                /\ sent' = <<>>
                /\ health' = NoHealth
                /\ retries' = 0
                /\ last_exception' = NoneV
                /\ attempts' = 0
                /\ outcomes' = <<>>
                /\ last_response' = NoResponse
                /\ log' = <<>>
           ELSE /\ constructed' = [called |-> TRUE, timeout |-> timeout,
                                   max_retries |-> max_retries,
                                   error |-> Some("ValidationError")]
                /\ UNCHANGED <<config, callvars, log>>
        /\ UNCHANGED <<lifevars, other, summary, percentage>>

NextConfig ==
    \/ \E timeout \in TimeoutArgs, max_retries \in MaxRetriesArgs :
          NewConfig(timeout, max_retries)
    \/ \E url \in Urls : Request("GET", url, NoKwargs)
    \/ AttemptConnectError

\* the calls of this part are made without a token
InitConfig == Init /\ config.api_token = NoneV

SpecConfig == InitConfig /\ [][NextConfig]_vars

----------------------------------------------------------------------------
\* HealthSummary: the validation of its counts, and health_percentage()

\* ge=0 on total_entities and on healthy_count; no validator relates the two
ValidCount(n) == n >= 0

CountArgs == -1..MaxCount

\* HealthSummary(total_entities=..., healthy_count=...)
NewHealthSummary(total_entities, healthy_count) ==
    /\ summary' = [called |-> TRUE, total_entities |-> total_entities,
                   healthy_count |-> healthy_count,
                   error |-> IF ValidCount(total_entities) /\ ValidCount(healthy_count)
                             THEN NoneV ELSE Some("ValidationError")]
    /\ percentage' = NoneV
    /\ UNCHANGED <<config, callvars, lifevars, other, constructed, log>>

\* round(x, 2) of the quotient num / den, as a number of hundredths: the nearest
\* one, the even one of two equally near
Round2(num, den) ==
    LET q == (num * 100) \div den
        r == (num * 100) % den
    IN  IF 2 * r < den THEN q
        ELSE IF 2 * r > den THEN q + 1
        ELSE IF q % 2 = 0 THEN q ELSE q + 1

\* health_percentage(): 0.0 for no entities, else
\* round((healthy_count / total_entities) * 100, 2)
HealthPercentageOf(s) ==
    IF s.total_entities = 0
    THEN 0
    ELSE Round2(s.healthy_count * 100, s.total_entities)

\* summary.health_percentage() on a summary that came into being
HealthPercentage ==
    /\ summary.called
    /\ summary.error = NoneV
    /\ percentage' = Some(HealthPercentageOf(summary))
    /\ UNCHANGED <<config, callvars, lifevars, other, constructed, summary, log>>

NextSummary ==
    \/ \E total_entities \in CountArgs, healthy_count \in CountArgs :
          NewHealthSummary(total_entities, healthy_count)
    \/ HealthPercentage

\* no client takes part: one configuration is enough
InitSummary == Init /\ config.max_retries = 0 /\ config.api_token = NoneV

SpecSummary == InitSummary /\ [][NextSummary]_vars

----------------------------------------------------------------------------
\* The progress of a call. request() runs synchronously in its caller's thread, and
\* self.client.request comes back from every attempt, with a response or with an
\* exception, after the configured timeout at the latest: a call that is in its loop
\* goes on to its next pass.

\* one pass of the loop body, whatever its attempt brings
Attempt ==
    \/ \E response \in SampleResponses : AttemptResponse(response)
    \/ AttemptConnectError
    \/ AttemptTimeout
    \/ AttemptTransportError

NextCall ==
    \/ \E method \in Methods, url \in Urls : Request(method, url, NoKwargs)
    \/ \E response \in SampleResponses : AttemptResponse(response)
    \/ AttemptConnectError
    \/ AttemptTimeout
    \/ AttemptTransportError

SpecProgress == Init /\ [][NextCall]_vars /\ WF_vars(Attempt)

----------------------------------------------------------------------------
\* Properties

Transient == {"ConnectError", "TimeoutException"}

Last(seq) == seq[Len(seq)]

Front(seq) == SubSeq(seq, 1, Len(seq) - 1)

AllOfKind(seq, kinds) == \A i \in 1..Len(seq) : seq[i].kind \in kinds

\* the call in progress or just ended received a response on its last attempt
EndedByResponse ==
    pc = "done" /\ Len(outcomes) > 0 /\ Last(outcomes).kind = "Response"

\* C1: when every attempt of a call fails with a connect failure, the call makes
\* exactly max_retries + 1 attempts and then raises MatrixConnectionError: it has not
\* ended before attempt max_retries + 1, it ends with that attempt, and it never
\* makes more.
C1_ConnectFailuresExhaustBudget ==
    (pc # "idle" /\ AllOfKind(outcomes, {"ConnectError"})) =>
        /\ attempts <= config.max_retries + 1
        /\ (pc = "done") = (attempts = config.max_retries + 1)
        /\ pc = "done" =>
              /\ result.kind = "raise"
              /\ result.exc = "MatrixConnectionError"

C1_Witness ==
    /\ pc = "done"
    /\ config.max_retries = MaxRetriesBound
    /\ AllOfKind(outcomes, {"ConnectError"})
    /\ attempts = MaxRetriesBound + 1
    /\ result.exc = "MatrixConnectionError"

\* the payload a success response decodes to
PayloadOf(response) ==
    IF response.content = <<>> THEN EmptyMap ELSE JsonLoads(response.content).val

\* a 2xx response whose body is empty or valid JSON
IsSuccessResponse(response) ==
    /\ response.status_code \in 200..299
    /\ (response.content = <<>> \/ JsonLoads(response.content).ok)

\* C2: after k <= max_retries transient failures (connect failures or timeouts) the
\* call is still attempting, and when attempt k + 1 then receives a success
\* response the call returns that response's decoded payload and raises nothing;
\* this covers k = max_retries, the last attempt allowed.
C2_SuccessAfterTransientFailures ==
    /\ (pc # "idle" /\ AllOfKind(outcomes, Transient)
            /\ Len(outcomes) <= config.max_retries) => pc = "loop"
    /\ (EndedByResponse /\ AllOfKind(Front(outcomes), Transient)
            /\ IsSuccessResponse(last_response)) =>
          /\ Len(outcomes) <= config.max_retries + 1
          /\ result.kind = "return"
          /\ result.value = PayloadOf(last_response)

C2_Witness ==
    /\ EndedByResponse
    /\ config.max_retries = MaxRetriesBound
    /\ Len(outcomes) = MaxRetriesBound + 1
    /\ AllOfKind(Front(outcomes), Transient)
    /\ last_response.status_code = 200
    /\ result.kind = "return"
    /\ result.value.members = {<<"status", "ok">>}

\* C3: a response with status >= 400 is the last attempt of its call: the call has
\* ended with it, whatever budget remains and whatever failures came before.
C3_ErrorStatusEndsCall ==
    \A i \in 1..Len(outcomes) :
        (outcomes[i].kind = "Response" /\ outcomes[i].status >= 400) =>
            /\ i = Len(outcomes)
            /\ attempts = i
            /\ pc = "done"
            /\ result.kind = "raise"

C3_Witness ==
    /\ EndedByResponse
    /\ Len(outcomes) = 2
    /\ outcomes[1].kind \in Transient
    /\ Last(outcomes).status = 500
    /\ Len(outcomes) <= config.max_retries

\* the exception class _handle_response documents for a status >= 400
KindOfStatus(status) ==
    CASE status \in {401, 403} -> "MatrixAuthError"
      [] status = 404 -> "MatrixNotFoundError"
      [] status = 422 -> "MatrixValidationError"
      [] status = 429 -> "MatrixRateLimitError"
      [] OTHER -> "MatrixAPIError"

\* the Retry-After header is absent, empty or a decimal integer: int() accepts it
RetryAfterParses(response) ==
    ~TruthyHeader(response.retry_after) \/ PyInt(TheValue(response.retry_after)).ok

\* C4: every response with status >= 400 ends in the error class of its status
\* code, whatever its body, and the error carries that status code. (Retry-After
\* values that int() rejects are the matter of C28 and are left out here.)
C4_StatusAloneDeterminesKind ==
    (EndedByResponse /\ last_response.status_code >= 400
        /\ RetryAfterParses(last_response)) =>
        /\ result.kind = "raise"
        /\ result.exc = KindOfStatus(last_response.status_code)
        /\ result.status_code = Some(last_response.status_code)

\* C5: every call that has ended returned a payload or raised one error of the
\* closed taxonomy (a decode failure of a success body included).
C5_OutcomeIsClassified ==
    pc = "done" =>
        \/ result.kind = "return"
        \/ /\ result.kind = "raise"
           /\ \/ result.exc \in MatrixErrors
              \/ /\ result.exc = "JSONDecodeError"
                 /\ EndedByResponse
                 /\ last_response.status_code \in 200..299

IsPrefix(a, b) == Len(a) <= Len(b) /\ SubSeq(b, 1, Len(a)) = a

\* C6: a response with status >= 400 whose body is not valid JSON ends in the
\* typed error of its status code, with the raw status text as its message (the
\* missing-token hint may follow it for 401/403).
C6_NonJsonErrorBodyStillTyped ==
    (EndedByResponse /\ last_response.status_code >= 400
        /\ ~JsonLoads(last_response.content).ok
        /\ RetryAfterParses(last_response)) =>
        /\ result.kind = "raise"
        /\ result.exc = KindOfStatus(last_response.status_code)
        /\ IsPrefix(StrHTTPStatusError(last_response), result.message)

Range(seq) == {seq[i] : i \in 1..Len(seq)}

\* C7: a 401 or 403 response ends in MatrixAuthError, and its message contains the
\* missing-token hint exactly when api_token is None or empty.
C7_AuthHintIffNoToken ==
    (EndedByResponse /\ last_response.status_code \in {401, 403}) =>
        /\ result.kind = "raise"
        /\ result.exc = "MatrixAuthError"
        /\ (TokenHint \in Range(result.message))
               = (config.api_token \in {NoneV, Some("")})

C7_Witness ==
    /\ EndedByResponse
    /\ last_response.status_code = 403
    /\ config.api_token = Some("")
    /\ result.exc = "MatrixAuthError"
    /\ TokenHint \in Range(result.message)

\* C8: a 429 response ends in MatrixRateLimitError whose retry_after is the integer
\* value of the Retry-After header (7 for "7", 120 for "120", 0 for "0") and None
\* when the header is absent; the 429 attempt is the last of its call, so a call
\* answered 429 at once made exactly one attempt.
C8_RetryAfterCarriedNoRetry ==
    /\ (EndedByResponse /\ last_response.status_code = 429) =>
          LET hdr == last_response.retry_after
              carried(v) == /\ result.kind = "raise"
                            /\ result.exc = "MatrixRateLimitError"
                            /\ result.retry_after = v
          IN  /\ hdr = NoneV => carried(NoneV)
              /\ hdr = Some(<<"7">>) => carried(Some(7))
              /\ hdr = Some(<<"1", "2", "0">>) => carried(Some(120))
              /\ hdr = Some(<<"0">>) => carried(Some(0))
    /\ \A i \in 1..Len(outcomes) :
          (outcomes[i].kind = "Response" /\ outcomes[i].status = 429) =>
              /\ pc = "done"
              /\ attempts = i
              /\ retries = i - 1

C8_Witness ==
    /\ EndedByResponse
    /\ last_response.status_code = 429
    /\ last_response.retry_after = Some(<<"7">>)
    /\ result.exc = "MatrixRateLimitError"
    /\ result.retry_after = Some(7)
    /\ attempts = 1
    /\ config.max_retries > 0

BodyDetail == <<"{", "detail", ":", "bad field", "}">>

\* C9: a 422 response whose body is a JSON object ends in MatrixValidationError
\* whose response_data is the decoded body and whose message is the body's detail
\* field when it has one ({"detail": "bad field"} gives "bad field").
C9_ValidationKeepsBody ==
    (EndedByResponse /\ last_response.status_code = 422) =>
        LET d == JsonLoads(last_response.content)
        IN  /\ (d.ok /\ d.val.type = "object") =>
                  /\ result.kind = "raise"
                  /\ result.exc = "MatrixValidationError"
                  /\ result.response_data = d.val
                  /\ \A p \in d.val.members :
                        p[1] = "detail" => result.message = <<p[2]>>
            /\ last_response.content = BodyDetail =>
                  /\ result.message = <<"bad field">>
                  /\ result.response_data.type = "object"
                  /\ result.response_data.members = {<<"detail", "bad field">>}

C9_Witness ==
    /\ EndedByResponse
    /\ last_response.status_code = 422
    /\ last_response.content = BodyDetail
    /\ result.exc = "MatrixValidationError"
    /\ result.message = <<"bad field">>
    /\ result.response_data.members = {<<"detail", "bad field">>}

BodyStatusOk == <<"{", "status", ":", "ok", "}">>

\* C10: a 200 response with an empty body returns the empty map, and a 200
\* response with body {"status":"ok"} returns the map {"status":"ok"}.
C10_SuccessDecodes ==
    (EndedByResponse /\ last_response.status_code = 200) =>
        /\ last_response.content = <<>> =>
              /\ result.kind = "return"
              /\ result.value.type = "object"
              /\ result.value.members = {}
        /\ last_response.content = BodyStatusOk =>
              /\ result.kind = "return"
              /\ result.value.type = "object"
              /\ result.value.members = {<<"status", "ok">>}

C10_Witness ==
    /\ EndedByResponse
    /\ last_response.status_code = 200
    /\ last_response.content = <<>>
    /\ result.kind = "return"
    /\ result.value = EmptyMap

\* C11: a success response whose non-empty body does not decode as JSON ends the
\* call at that attempt with the decode error: no attempt follows it and the retry
\* counter is not touched, whatever budget remains.
C11_DecodeFailureIsTerminal ==
    /\ \A i \in 1..Len(outcomes) :
          (outcomes[i].kind = "Response" /\ outcomes[i].status \in 200..299) =>
              /\ i = Len(outcomes)
              /\ attempts = i
              /\ pc = "done"
    /\ (EndedByResponse /\ last_response.status_code \in 200..299
            /\ last_response.content # <<>>
            /\ ~JsonLoads(last_response.content).ok) =>
          /\ result.kind = "raise"
          /\ result.exc = "JSONDecodeError"
          /\ AllOfKind(Front(outcomes), Transient) => retries = Len(outcomes) - 1

C11_Witness ==
    /\ EndedByResponse
    /\ last_response.status_code = 200
    /\ last_response.content = <<"<html>">>
    /\ Len(outcomes) = 2
    /\ Len(outcomes) <= config.max_retries
    /\ result.exc = "JSONDecodeError"

\* C12: connect failures and timeouts draw on one budget and each aborts only its
\* own attempt: while at most max_retries attempts have failed, in any mix, the
\* call goes on to another attempt; after max_retries + 1 failures it has ended,
\* with MatrixTimeoutError when the last failure was a timeout and with
\* MatrixConnectionError when it was a connect failure.
C12_SharedBudgetForTransientFailures ==
    (pc # "idle" /\ AllOfKind(outcomes, Transient)) =>
        /\ retries = Len(outcomes)
        /\ attempts = Len(outcomes)
        /\ Len(outcomes) <= config.max_retries => pc = "loop"
        /\ pc = "done" =>
              /\ attempts = config.max_retries + 1
              /\ result.kind = "raise"
              /\ result.exc = IF Last(outcomes).kind = "TimeoutException"
                              THEN "MatrixTimeoutError"
                              ELSE "MatrixConnectionError"

C12_Witness ==
    /\ pc = "done"
    /\ config.max_retries = MaxRetriesBound
    /\ Len(outcomes) = MaxRetriesBound + 1
    /\ AllOfKind(outcomes, Transient)
    /\ outcomes[1].kind = "TimeoutException"
    /\ \E i \in 1..Len(outcomes) : outcomes[i].kind = "ConnectError"
    /\ Last(outcomes).kind = "TimeoutException"
    /\ result.exc = "MatrixTimeoutError"

\* C13: the error raised when the budget is exhausted names the number of attempts
\* made, max_retries + 1, for MatrixConnectionError and for MatrixTimeoutError.
C13_ExhaustionNamesAttempts ==
    (pc = "done" /\ result.kind = "raise"
        /\ result.exc \in {"MatrixConnectionError", "MatrixTimeoutError"}) =>
        /\ "attempts" \in Range(result.message)
        /\ result.nums = <<config.max_retries + 1>>

\* C14: a call never makes more than max_retries + 1 attempts, a call that has
\* ended made at least one, and with max_retries = 0 it made exactly one.
C14_AttemptsWithinBudget ==
    /\ attempts <= config.max_retries + 1
    /\ pc = "done" => attempts >= 1
    /\ (pc = "done" /\ config.max_retries = 0) => (attempts = 1 /\ retries <= 1)

C14_Witness ==
    /\ pc = "done"
    /\ config.max_retries = 0
    /\ attempts = 1
    /\ outcomes[1].kind \in Transient
    /\ result.kind = "raise"

\* C15: the Content-Type, Accept, User-Agent and Authorization headers of every
\* attempt are determined by the configuration alone, whatever header map the caller
\* supplied: the three fixed headers carry the injector's values, and Authorization
\* is "Bearer <token>" when a token is configured and absent when none is.
C15_InjectedHeadersFromConfigAlone ==
    \A i \in 1..Len(sent) :
        /\ <<"Content-Type", <<"application/json">>>> \in sent[i].headers
        /\ <<"Accept", <<"application/json">>>> \in sent[i].headers
        /\ <<"User-Agent", <<"matrix-system/1.0.0">>>> \in sent[i].headers
        /\ TruthyStr(config.api_token) =>
              <<"Authorization", <<"Bearer", TheValue(config.api_token)>>>>
                  \in sent[i].headers
        /\ ~TruthyStr(config.api_token) => "Authorization" \notin Keys(sent[i].headers)
        /\ \A p, q \in sent[i].headers : p[1] = q[1] => p = q

\* the base URL a service is configured with
ConfiguredBase(service) ==
    CASE service = "hub" -> config.matrix_hub_url
      [] service = "ai" -> config.matrix_ai_url
      [] service = "guardian" -> config.matrix_guardian_url

\* C19: health_check(service) for hub, ai or guardian makes one call of request():
\* GET, no body, to the service's configured base URL followed by /health; for any
\* other service name it raises ValueError and nothing is sent.
C19_HealthCheckProbesServiceBase ==
    /\ health.service \in {"hub", "ai", "guardian"} =>
          /\ health.error = NoneV
          /\ pc # "idle"
          /\ req.method = "GET"
          /\ req.json = NoneV
          /\ req.url = ConfiguredBase(health.service) \o <<"/health">>
          /\ \A i \in 1..Len(sent) :
                /\ sent[i].method = "GET"
                /\ sent[i].json = NoneV
                /\ sent[i].url = req.url
    /\ health.service \notin {"", "hub", "ai", "guardian"} =>
          /\ health.error = Some("ValueError")
          /\ pc = "idle"
          /\ attempts = 0
          /\ sent = <<>>

\* C16: close() may be called any number of times, in any state of the client and
\* after a failed call too: no call of it faults, the first one releases the
\* transport, and the transport stays released, once, from then on.
C16_CloseIsIdempotent ==
    /\ close_faults = 0
    /\ close_calls = 0 => (~closed /\ releases = 0)
    /\ close_calls >= 1 => (closed /\ releases = 1)

\* close() called twice in a row after a call that failed
C16_Witness ==
    /\ scope = "none"
    /\ close_calls = 2
    /\ pc = "done"
    /\ result.kind = "raise"
    /\ result.exc = "MatrixConnectionError"
    /\ closed
    /\ releases = 1

\* C17: a with-block around the client releases the transport on every way out,
\* the normal one and the one by an error a call inside raised, exactly once in
\* all; and the error that ended the block still leaves it.
C17_ScopeReleasesOnceKeepsError ==
    /\ scope = "exited" => (closed /\ releases = 1 /\ propagated = exit_exc)
    /\ scope # "exited" => (exit_exc = NoneV /\ propagated = NoneV)
    /\ (scope = "with" /\ close_calls = 0) => (~closed /\ releases = 0)

\* the block was left by the error of a call made inside it, with no close() by hand
C17_Witness ==
    /\ scope = "exited"
    /\ close_calls = 1
    /\ pc = "done"
    /\ attempts >= 1
    /\ result.exc = "MatrixNotFoundError"
    /\ exit_exc = Some("MatrixNotFoundError")
    /\ propagated = Some("MatrixNotFoundError")
    /\ closed
    /\ releases = 1

\* how many of the attempts recorded in outs failed with a transport failure
TransientCount(outs) == Cardinality({i \in 1..Len(outs) : outs[i].kind \in Transient})

\* the attempts of a call so far were all transport failures, and it has ended
EndedExhausted(callpc, outs) ==
    callpc = "done" /\ Len(outs) > 0 /\ AllOfKind(outs, Transient)

\* C18: the attempt counter and the last transport failure belong to one call.
\* With two calls interleaved on one client, and with calls following one another,
\* each call's counter is the number of its own failed attempts, zero at its start,
\* its last failure is the failure of its own latest failed attempt, and a call that
\* only meets transport failures ends after max_retries + 1 attempts of its own.
C18_AttemptStatePrivateToCall ==
    /\ retries = TransientCount(outcomes)
    /\ attempts = Len(outcomes)
    /\ other.retries = TransientCount(other.outcomes)
    /\ other.attempts = Len(other.outcomes)
    /\ (outcomes = <<>>) => (retries = 0 /\ last_exception = NoneV)
    /\ (other.outcomes = <<>>) => (other.retries = 0 /\ other.last_exception = NoneV)
    /\ (outcomes # <<>> /\ Last(outcomes).kind \in Transient) =>
          last_exception = Some(Last(outcomes).kind)
    /\ (other.outcomes # <<>> /\ Last(other.outcomes).kind \in Transient) =>
          other.last_exception = Some(Last(other.outcomes).kind)
    /\ (pc = "loop" /\ AllOfKind(outcomes, Transient)) =>
          Len(outcomes) <= config.max_retries
    /\ (other.pc = "loop" /\ AllOfKind(other.outcomes, Transient)) =>
          Len(other.outcomes) <= config.max_retries
    /\ EndedExhausted(pc, outcomes) => attempts = config.max_retries + 1
    /\ EndedExhausted(other.pc, other.outcomes) =>
          other.attempts = config.max_retries + 1

\* the first call has failed once and goes on, while the second call, started
\* meanwhile, has used up its whole budget
C18_Witness ==
    /\ config.max_retries = MaxRetriesBound
    /\ pc = "loop"
    /\ retries = 1
    /\ EndedExhausted(other.pc, other.outcomes)
    /\ other.retries = config.max_retries + 1
    /\ other.result.exc = "MatrixConnectionError"

\* C23: a response with a status below 400, a 1xx or an unfollowed 3xx such as 304
\* as well as a 2xx, takes the success path: its body is decoded (an empty body
\* gives the empty map, a body that is no JSON gives the decode error) and no API
\* error is raised for it.
C23_BelowFourHundredDecodes ==
    (EndedByResponse /\ last_response.status_code < 400) =>
        IF last_response.content = <<>> \/ JsonLoads(last_response.content).ok
        THEN /\ result.kind = "return"
             /\ result.value = PayloadOf(last_response)
        ELSE /\ result.kind = "raise"
             /\ result.exc = "JSONDecodeError"

\* the detail field of a body that is a JSON object with such a field
HasDetail(response) ==
    LET d == JsonLoads(response.content)
    IN  d.ok /\ d.val.type = "object" /\ "detail" \in Keys(d.val.members)

DetailOf(response) ==
    (CHOOSE p \in JsonLoads(response.content).val.members : p[1] = "detail")[2]

\* C24: a response with status >= 400 of the generic kind ends in MatrixAPIError
\* carrying the status code, and its message is the body's detail field when the
\* body is a JSON object that has one, and the raw status line in every other case:
\* a JSON object without detail, JSON that is no object, a body that is no JSON.
C24_GenericErrorBestEffortMessage ==
    (EndedByResponse /\ last_response.status_code >= 400
        /\ KindOfStatus(last_response.status_code) = "MatrixAPIError") =>
        /\ result.kind = "raise"
        /\ result.exc = "MatrixAPIError"
        /\ result.status_code = Some(last_response.status_code)
        /\ result.message = IF HasDetail(last_response)
                            THEN <<DetailOf(last_response)>>
                            ELSE StrHTTPStatusError(last_response)

\* C28: a 429 response ends in MatrixRateLimitError whatever the value of its
\* Retry-After header is: also when the value is no decimal integer, such as an
\* HTTP date, the call ends with that error and not with a conversion fault.
C28_RateLimitWhateverRetryAfter ==
    (EndedByResponse /\ last_response.status_code = 429) =>
        /\ result.kind = "raise"
        /\ result.exc = "MatrixRateLimitError"
        /\ result.status_code = Some(429)

\* C25: every attempt of one call sends the same request: method, URL, header map
\* and body of each later attempt equal those of the first, which are the ones the
\* call was made with; this holds for a POST with a body as for a GET.
C25_RetriesResendSameRequest ==
    /\ Len(sent) = attempts
    /\ \A k \in 1..Len(sent) :
          /\ sent[k] = sent[1]
          /\ sent[k].method = req.method
          /\ sent[k].url = req.url
          /\ sent[k].json = req.json

\* a POST with a body that was attempted max_retries + 1 times, twice at least
C25_Witness ==
    /\ pc = "done"
    /\ req.method = "POST"
    /\ req.json = Some("payload")
    /\ config.max_retries >= 1
    /\ Len(sent) = config.max_retries + 1
    /\ AllOfKind(outcomes, Transient)
    /\ sent[Len(sent)].json = Some("payload")
    /\ sent[Len(sent)] = sent[1]

\* C29: the header map the caller passed to request holds after the call, however
\* the call ended, exactly the entries it held when it was passed, and so not the
\* client's Authorization header with the bearer token.
C29_CallerHeadersUntouched ==
    (pc # "idle" /\ req.headers # NoneV) =>
        /\ caller_headers = req.headers
        /\ TruthyStr(config.api_token) =>
              <<"Authorization", <<"Bearer", TheValue(config.api_token)>>>>
                  \notin TheValue(caller_headers)

\* C27: request returns a value only when its last attempt received a success
\* response, and the value is that response's decoded body. The code after the
\* loop is never reached: no call ends without an attempt, and a call whose last
\* attempt failed in the transport ends by the raise inside the except clause, with
\* the budget exceeded; so no call returns the empty map without a response.
C27_ReturnOnlyFromSuccessResponse ==
    /\ result.kind = "return" =>
          /\ EndedByResponse
          /\ last_response.status_code \in 200..299
          /\ result.value = PayloadOf(last_response)
    /\ pc = "done" => Len(outcomes) >= 1
    /\ pc = "loop" => LoopCond(retries, config)
    /\ (pc = "done" /\ Last(outcomes).kind \in Transient) =>
          /\ Exhausted(retries, config)
          /\ result.kind = "raise"
          /\ result.exc \in {"MatrixConnectionError", "MatrixTimeoutError"}
          /\ result.exc = "MatrixConnectionError" => result.nums = <<config.max_retries + 1>>

\* with no retry allowed, the one attempt got a response and its body is returned
C27_Witness ==
    /\ config.max_retries = 0
    /\ pc = "done"
    /\ attempts = 1
    /\ result.kind = "return"
    /\ last_response.status_code = 200
    /\ last_response.content = BodyStatusOk
    /\ result.value = PayloadOf(last_response)

\* C26: every call ends. Given that each attempt comes back with a response or a
\* transport failure, a call that has started reaches its end, by return or by
\* raise, for every max_retries >= 0 and every sequence of outcomes of its attempts;
\* and a call that has ended makes no further attempt.
C26_EveryCallTerminates ==
    /\ (pc = "loop") ~> (pc = "done" /\ result.kind \in {"return", "raise"})
    /\ [][pc = "done" => (sent' = sent \/ sent' = <<>>)]_vars

\* a call ended after using the whole budget
C26_Witness ==
    /\ config.max_retries = MaxRetriesBound
    /\ pc = "done"
    /\ attempts = config.max_retries + 1
    /\ AllOfKind(outcomes, Transient)
    /\ result.kind = "raise"

\* C21: every Config that comes into being has 1 <= timeout <= 300 and
\* 0 <= max_retries <= 10, with 30 and 3 for the arguments left out; Config(...)
\* raises a validation error exactly for arguments outside these limits, such as
\* timeout 0 or 500 and max_retries -1 or 20; so the loop of request runs with a
\* budget that is not negative.
C21_ConfigWithinLimits ==
    /\ 1 <= config.timeout /\ config.timeout <= 300
    /\ 0 <= config.max_retries /\ config.max_retries <= 10
    /\ pc = "loop" => config.max_retries >= 0
    /\ constructed.called =>
          LET t == FieldValue(constructed.timeout, 30)
              m == FieldValue(constructed.max_retries, 3)
          IN  /\ (constructed.error = NoneV) = (t \in 1..300 /\ m \in 0..10)
              /\ constructed.error # NoneV => constructed.error = Some("ValidationError")
              /\ constructed.error = NoneV => (config.timeout = t /\ config.max_retries = m)
              /\ (t \in {0, 500} \/ m \in {-1, 20}) => constructed.error # NoneV

\* Config(timeout=500) was rejected, and the call on the Config built before it,
\* with max_retries=10 and the default timeout, used its whole budget
C21_Witness ==
    /\ constructed.called
    /\ constructed.timeout = Some(500)
    /\ constructed.error = Some("ValidationError")
    /\ config.max_retries = 10
    /\ config.timeout = 30
    /\ pc = "done"
    /\ attempts = 11

\* C22: for every HealthSummary that passes validation, health_percentage()
\* returns a value from 0 to 100, and 0 when total_entities is 0; 8 healthy of 10
\* gives 80.
C22_PercentageWithinHundred ==
    (summary.called /\ summary.error = NoneV /\ percentage # NoneV) =>
        /\ 0 <= TheValue(percentage)
        /\ TheValue(percentage) <= 100 * 100
        /\ summary.total_entities = 0 => TheValue(percentage) = 0
        /\ (summary.total_entities = 10 /\ summary.healthy_count = 8) =>
              TheValue(percentage) = 80 * 100

\* every string that a logged event holds in one of its fields
StringsOf(e) ==
    {e.method} \cup Range(e.url) \cup Range(e.message)
        \cup UNION {Range(p[2]) : p \in e.headers}

\* the credential of an Authorization header value <<"Bearer", credential>>
Credentials(h) == {p[2][2] : p \in {q \in h : q[1] = "Authorization"}}

EventNames(events) == {events[i].event : i \in 1..Len(events)}

====
